---------------------------- MODULE Spec2Model ----------------------------
(***************************************************************************)
(* A model of gocesiumtiler's LAS reader (lasread/tiler_las_reader.go),    *)
(* of its tile-writer pool (Consume / doWork) and of the content.pnts      *)
(* serializer (writeBinaryPnts and the two JSON generators).               *)
(*                                                                         *)
(* Three specifications share the module's variables:                      *)
(*   SpecReader  one call of NewLasFileForTiler: header, flags, bulk read, *)
(*               the spawn loop and the parse goroutines;                  *)
(*   SpecWriter  a producer walking an octree, a pool of Consume           *)
(*               goroutines, the caller joining the pool;                  *)
(*   SpecPnts    writeBinaryPnts applied to one node's items.              *)
(***************************************************************************)
EXTENDS Integers, Sequences, FiniteSets, TLC

VARIABLES
    \* ---- LAS reader ----
    rpc,                \* position of the reading goroutine
    numCPUs,            \* runtime.NumCPU()
    Header,             \* las.Header: PointFormatID, PointRecordLength, NumberPoints
    readFailed,         \* the bulk ReadAt returned an error other than io.EOF
    usePointIntensity,  \* las.usePointIntensity
    usePointUserdata,   \* las.usePointUserdata
    startingPoint,      \* the spawn loop's startingPoint
    workers,            \* the parse goroutines, in spawn order
    wg,                 \* the reader's sync.WaitGroup counter
    emitted,            \* record index -> times it was handed to loader.AddElement
    result,             \* what readForOctree returned: "none", "nil", "err"
    projection,         \* "allocated" until converters.DeallocateProjection
    releases,           \* calls of converters.DeallocateProjection
    lateConvert,        \* converters.Convert was called on a released projection
    \* ---- tile writer ----
    tree,               \* the octree handed to the writer
    numWorkers,         \* size of the consumer pool
    produced,           \* number of nodes the producer has enqueued
    workchan,           \* buffered content of the work channel
    closed,             \* the work channel was closed
    errchan,            \* buffered content of the error channel
    cpc,                \* position of each Consume goroutine
    cwork,              \* the work unit each Consume goroutine holds
    poolWg,             \* the pool's sync.WaitGroup counter
    files,              \* complete files on disk
    tilesets,           \* tileset.json path -> the child URLs it lists
    worklog,            \* node -> what doWork did for it
    errored,            \* some doWork has returned an error
    lateStart,          \* units whose processing began after errored
    pipeline,           \* what the caller got after joining: "none", "nil", "err"
    \* ---- content.pnts serializer ----
    ppc,                \* "input" before writeBinaryPnts, "written" after
    pointNo,            \* len(node.Items)
    center,             \* fmt.Sprintf("%f", .) of avgX, avgY, avgZ
    outputByte          \* the bytes writeBinaryPnts hands to ioutil.WriteFile

readerVars == <<rpc, numCPUs, Header, readFailed, usePointIntensity, usePointUserdata,
                startingPoint, workers, wg, emitted, result, projection, releases,
                lateConvert>>

writerVars == <<tree, numWorkers, produced, workchan, closed, errchan, cpc, cwork,
                poolWg, files, tilesets, worklog, errored, lateStart, pipeline>>

pntsVars == <<ppc, pointNo, center, outputByte>>

vars == <<readerVars, writerVars, pntsVars>>

(***************************************************************************)
(* Bounds of the model.                                                    *)
(***************************************************************************)
MaxPoints == 4

MaxCPU == 3

MaxFormatID == 4

MinRecLen == 16

MaxRecLen == 35

(***************************************************************************)
(*                            The LAS reader                               *)
(***************************************************************************)

\* recLengths[format][column]; columns (I,U), (~I,U), (I,~U), (~I,~U).
recLengths ==
    [f \in 0..3 |->
        CASE f = 0 -> <<20, 18, 19, 17>>
          [] f = 1 -> <<28, 26, 27, 25>>
          [] f = 2 -> <<26, 24, 25, 23>>
          [] f = 3 -> <<34, 32, 33, 31>>]

\* The chain with the flags of the second and third column exchanged.
SelectFlags_ColumnsSwapped(h, useI, useU) ==
    LET row == recLengths[h.PointFormatID]
        len == h.PointRecordLength
    IN  CASE len = row[1] -> <<TRUE, TRUE>>
          [] len = row[2] -> <<TRUE, FALSE>>
          [] len = row[3] -> <<FALSE, TRUE>>
          [] len = row[4] -> <<FALSE, FALSE>>
          [] OTHER -> <<useI, useU>>

\* The if / else-if chain that selects the two flags.  No branch matches a
\* record length outside the format's row: the flags keep their values.
SelectFlags(h, useI, useU) ==
    LET row == recLengths[h.PointFormatID]
        len == h.PointRecordLength
    IN  CASE len = row[1] -> <<TRUE, TRUE>>
          [] len = row[2] -> <<FALSE, TRUE>>
          [] len = row[3] -> <<TRUE, FALSE>>
          [] len = row[4] -> <<FALSE, FALSE>>
          [] OTHER -> <<useI, useU>>

\* Bytes the per-record parser advances its offset by.
RecordAdvance(fmt, useI, useU) ==
    12 + (IF useI THEN 2 ELSE 0) + 3 + (IF useU THEN 1 ELSE 0) + 2
       + (IF fmt = 1 \/ fmt = 3 THEN 8 ELSE 0)
       + (IF fmt = 2 \/ fmt = 3 THEN 6 ELSE 0)

\* Parsing record i slices b[offset:offset+k] up to i*recLen + advance; b was
\* made with NumberPoints*PointRecordLength bytes.  A slice past the end of b
\* panics.
ParseInRange(h, useI, useU, i) ==
    i * h.PointRecordLength + RecordAdvance(h.PointFormatID, useI, useU)
        <= h.NumberPoints * h.PointRecordLength

InitReaderVars ==
    /\ rpc = "open"
    /\ Header = [PointFormatID |-> 0, PointRecordLength |-> 0, NumberPoints |-> 0]
    /\ readFailed = FALSE
    /\ usePointIntensity = FALSE
    /\ usePointUserdata = FALSE
    /\ startingPoint = 0
    /\ workers = <<>>
    /\ wg = 0
    /\ emitted = [i \in 0..(MaxPoints - 1) |-> 0]
    /\ result = "none"
    /\ projection = "allocated"
    /\ releases = 0
    /\ lateConvert = FALSE

\* os.Open(las.fileName)
Open ==
    /\ rpc = "open"
    /\ \/ rpc' = "header" /\ UNCHANGED result
       \/ rpc' = "done" /\ result' = "err"
    /\ UNCHANGED <<numCPUs, Header, readFailed, usePointIntensity, usePointUserdata,
                   startingPoint, workers, wg, emitted, projection, releases, lateConvert>>
    /\ UNCHANGED <<writerVars, pntsVars>>

\* las.readHeader(): the header of the file, or a read error.
ReadHeader ==
    /\ rpc = "header"
    /\ \/ /\ rpc' = "done"
          /\ result' = "err"
          /\ UNCHANGED Header
       \/ /\ \E f \in 0..MaxFormatID, l \in MinRecLen..MaxRecLen, n \in 0..MaxPoints :
                Header' = [PointFormatID |-> f, PointRecordLength |-> l, NumberPoints |-> n]
          /\ rpc' = "vlr"
          /\ UNCHANGED result
    /\ UNCHANGED <<numCPUs, readFailed, usePointIntensity, usePointUserdata,
                   startingPoint, workers, wg, emitted, projection, releases, lateConvert>>
    /\ UNCHANGED <<writerVars, pntsVars>>

\* las.readVLRs()
ReadVLRs ==
    /\ rpc = "vlr"
    /\ \/ rpc' = "flags" /\ UNCHANGED result
       \/ rpc' = "done" /\ result' = "err"
    /\ UNCHANGED <<numCPUs, Header, readFailed, usePointIntensity, usePointUserdata,
                   startingPoint, workers, wg, emitted, projection, releases, lateConvert>>
    /\ UNCHANGED <<writerVars, pntsVars>>

\* readForOctree's flag selection.  recLengths is a [4][4]int: indexing it
\* with a format id above 3 is a run-time panic.
readForOctree ==
    /\ rpc = "flags"
    /\ IF Header.PointFormatID \notin 0..3
       THEN /\ rpc' = "panic"
            /\ UNCHANGED <<usePointIntensity, usePointUserdata>>
       ELSE /\ rpc' = "bulk"
            /\ usePointIntensity' = SelectFlags(Header, usePointIntensity, usePointUserdata)[1]
            /\ usePointUserdata' = SelectFlags(Header, usePointIntensity, usePointUserdata)[2]
    /\ UNCHANGED <<numCPUs, Header, readFailed, startingPoint, workers, wg, emitted,
                   result, projection, releases, lateConvert>>
    /\ UNCHANGED <<writerVars, pntsVars>>

\* readPointsOctElem up to the spawn loop.  The bulk ReadAt may fail (not
\* when it is asked for zero bytes); its "return err" is commented out, so the
\* outcome is dropped and the function goes on: the flags again, then
\* startingPoint = 0.
readPointsOctElem ==
    /\ rpc = "bulk"
    /\ readFailed' \in (IF Header.NumberPoints * Header.PointRecordLength = 0
                        THEN {FALSE} ELSE BOOLEAN)
    /\ rpc' = "spawn"
    /\ usePointIntensity' = SelectFlags(Header, usePointIntensity, usePointUserdata)[1]
    /\ usePointUserdata' = SelectFlags(Header, usePointIntensity, usePointUserdata)[2]
    /\ startingPoint' = 0
    /\ UNCHANGED <<numCPUs, Header, workers, wg, emitted, result, projection, releases, lateConvert>>
    /\ UNCHANGED <<writerVars, pntsVars>>

\* A block size rounded up instead of down.
blockSize_RoundUp == (Header.NumberPoints + numCPUs - 1) \div numCPUs

blockSize == Header.NumberPoints \div numCPUs

\* endingPoint of the block that starts at start.
endingPoint(start) ==
    IF start + blockSize >= Header.NumberPoints
    THEN Header.NumberPoints - 1
    ELSE start + blockSize

\* The next block starting on the previous block's last record.
NextStart_Overlap(e) == e

\* The value startingPoint takes after a block ending at e.
NextStart(e) == e + 1

\* One iteration of the spawn loop: wg.Add(1), go func(pointSt, pointEnd).
SpawnWorker ==
    /\ rpc = "spawn"
    /\ startingPoint < Header.NumberPoints
    /\ wg' = wg + 1
    /\ workers' = Append(workers, [pointSt |-> startingPoint,
                                   pointEnd |-> endingPoint(startingPoint),
                                   i |-> startingPoint,
                                   pc |-> "parse"])
    /\ startingPoint' = NextStart(endingPoint(startingPoint))
    /\ UNCHANGED <<rpc, numCPUs, Header, readFailed, usePointIntensity, usePointUserdata,
                   emitted, result, projection, releases, lateConvert>>
    /\ UNCHANGED <<writerVars, pntsVars>>

\* The process runs: no panic, no log.Fatal.  A goroutine goes on whether or
\* not the function that started it has returned.
ProcessAlive == rpc \in {"spawn", "done"}

\* A parse goroutine decodes record i and converts its coordinates with
\* converters.Convert, which uses the shared projection.
WorkerParse(w) ==
    /\ ProcessAlive
    /\ workers[w].pc = "parse"
    /\ workers[w].i <= workers[w].pointEnd
    /\ IF ~ParseInRange(Header, usePointIntensity, usePointUserdata, workers[w].i)
       THEN /\ rpc' = "panic"
            /\ UNCHANGED workers
            /\ UNCHANGED lateConvert
       ELSE /\ lateConvert' = (lateConvert \/ projection = "released")
            /\ \/ /\ workers' = [workers EXCEPT ![w].pc = "add"]
                  /\ UNCHANGED rpc
               \/ /\ rpc' = "fatal"        \* converters.Convert failed: log.Fatal
                  /\ UNCHANGED workers
    /\ UNCHANGED <<numCPUs, Header, readFailed, usePointIntensity, usePointUserdata,
                   startingPoint, wg, emitted, result, projection, releases>>
    /\ UNCHANGED <<writerVars, pntsVars>>

\* The goroutine calls loader.AddElement(&elem).
WorkerAddEnter(w) ==
    /\ ProcessAlive
    /\ workers[w].pc = "add"
    /\ workers' = [workers EXCEPT ![w].pc = "inadd"]
    /\ emitted' = [emitted EXCEPT ![workers[w].i] = @ + 1]
    /\ UNCHANGED <<rpc, numCPUs, Header, readFailed, usePointIntensity, usePointUserdata,
                   startingPoint, wg, result, projection, releases, lateConvert>>
    /\ UNCHANGED <<writerVars, pntsVars>>

\* loader.AddElement returns; i++.
WorkerAddExit(w) ==
    /\ ProcessAlive
    /\ workers[w].pc = "inadd"
    /\ workers' = [workers EXCEPT ![w].pc = "parse", ![w].i = @ + 1]
    /\ UNCHANGED <<rpc, numCPUs, Header, readFailed, usePointIntensity, usePointUserdata,
                   startingPoint, wg, emitted, result, projection, releases, lateConvert>>
    /\ UNCHANGED <<writerVars, pntsVars>>

\* The goroutine's loop ends: the deferred wg.Done().
WorkerDone(w) ==
    /\ ProcessAlive
    /\ workers[w].pc = "parse"
    /\ workers[w].i > workers[w].pointEnd
    /\ workers' = [workers EXCEPT ![w].pc = "done"]
    /\ wg' = wg - 1
    /\ UNCHANGED <<rpc, numCPUs, Header, readFailed, usePointIntensity, usePointUserdata,
                   startingPoint, emitted, result, projection, releases, lateConvert>>
    /\ UNCHANGED <<writerVars, pntsVars>>

WaitPasses_NoWait == TRUE

\* wg.Wait() lets the reader through when the counter is zero.
WaitPasses == wg = 0

\* The spawn loop has ended; wg.Wait(), DeallocateProjection, return nil.
WaitAndReturn ==
    /\ rpc = "spawn"
    /\ startingPoint >= Header.NumberPoints
    /\ WaitPasses
    /\ projection' = "released"
    /\ releases' = releases + 1
    /\ rpc' = "done"
    /\ result' = "nil"
    /\ UNCHANGED <<numCPUs, Header, readFailed, usePointIntensity, usePointUserdata,
                   startingPoint, workers, wg, emitted, lateConvert>>
    /\ UNCHANGED <<writerVars, pntsVars>>

NextReader ==
    \/ Open
    \/ ReadHeader
    \/ ReadVLRs
    \/ readForOctree
    \/ readPointsOctElem
    \/ SpawnWorker
    \/ \E w \in 1..Len(workers) : WorkerParse(w)
    \/ \E w \in 1..Len(workers) : WorkerAddEnter(w)
    \/ \E w \in 1..Len(workers) : WorkerAddExit(w)
    \/ \E w \in 1..Len(workers) : WorkerDone(w)
    \/ WaitAndReturn

(***************************************************************************)
(*                     Strings: strconv.Itoa, path.Join                    *)
(***************************************************************************)

Digit(d) ==
    CASE d = 0 -> "0" [] d = 1 -> "1" [] d = 2 -> "2" [] d = 3 -> "3" [] d = 4 -> "4"
      [] d = 5 -> "5" [] d = 6 -> "6" [] d = 7 -> "7" [] d = 8 -> "8" [] d = 9 -> "9"

RECURSIVE Itoa(_)
\* strconv.Itoa: the decimal digits of n, most significant first.
Itoa(n) ==
    IF n < 0 THEN "-" \o Itoa(0 - n)
    ELSE IF n < 10 THEN Digit(n)
    ELSE Itoa(n \div 10) \o Digit(n % 10)

\* path.Join of a clean folder and a file name.
PathJoin(folder, name) == folder \o "/" \o name

(***************************************************************************)
(*                            The tile writer                              *)
(***************************************************************************)
MaxNodes == 3

MaxItems == 1

MaxWorkers == 2

WorkChanCap == 1

ErrChanCap == 1

RECURSIVE GlobalCount(_, _, _, _)
RECURSIVE SumChildren(_, _, _, _, _)
\* Sum of GlobalChildrenCount over the children of n with ids from c on.
SumChildren(k, parent, local, n, c) ==
    IF c > k THEN 0
    ELSE (IF parent[c] = n THEN GlobalCount(k, parent, local, c) ELSE 0)
         + SumChildren(k, parent, local, n, c + 1)

\* globalChildrenCount = localChildrenCount + the children's globalChildrenCount.
GlobalCount(k, parent, local, n) == local[n] + SumChildren(k, parent, local, n, n + 1)

\* The shapes of a k-node octree: node 1 the root, every other node the
\* child of an earlier node, at most eight children per node.
ParentMaps(k) ==
    { p \in [1..k -> 0..k] :
        /\ p[1] = 0
        /\ \A n \in 2..k : p[n] \in 1..(n - 1)
        /\ \A n \in 1..k : Cardinality({c \in 2..k : p[c] = n}) <= 8 }

\* The child slot (of 0..7) each node sits in: a parent's children, in the
\* order of their ids, take the slots 0, 7, 1, 6, 2, 5, 3, 4.
SlotMaps(k, parent) ==
    { [n \in 1..k |->
         IF n = 1 THEN 0
         ELSE <<0, 7, 1, 6, 2, 5, 3, 4>>[Cardinality({c \in 2..n : parent[c] = parent[n]})]] }

\* A node of the octree: IsLeaf and GlobalChildrenCount follow the octree's
\* invariants (a leaf has no child; global = local + the children's global).
OctNode(k, parent, slot, local) ==
    [ size |-> k,
      Parent |-> parent,
      Slot |-> slot,
      Items |-> local,
      IsLeaf |-> [n \in 1..k |-> ~\E c \in 1..k : parent[c] = n],
      GlobalChildrenCount |-> [n \in 1..k |-> GlobalCount(k, parent, local, n)] ]

\* The octrees handed to the writer, of 1..MaxNodes nodes, each node holding
\* no item or MaxItems items.
Octrees ==
    UNION { UNION { { OctNode(k, parent, slot, local) :
                        slot \in SlotMaps(k, parent), local \in [1..k -> {0, MaxItems}] } :
                    parent \in ParentMaps(k) } :
            k \in 1..MaxNodes }

\* Node n's child in slot i, or 0 for a nil slot.
ChildAt(t, n, i) ==
    IF \E c \in 1..t.size : t.Parent[c] = n /\ t.Slot[c] = i
    THEN CHOOSE c \in 1..t.size : t.Parent[c] = n /\ t.Slot[c] = i
    ELSE 0

RECURSIVE BasePath(_, _)
\* The directory of node n: the output root for the root, the parent's
\* directory joined with the child slot otherwise.
BasePath(t, n) ==
    IF n = 1 THEN "R" ELSE PathJoin(BasePath(t, t.Parent[n]), Itoa(t.Slot[n]))

WorkUnit(t, n) == [OctNode |-> n, BasePath |-> BasePath(t, n)]

InitWriterVars ==
    /\ produced = 0
    /\ workchan = <<>>
    /\ closed = FALSE
    /\ errchan = <<>>
    /\ cpc = [w \in 1..numWorkers |-> "recv"]
    /\ cwork = [w \in 1..numWorkers |-> [OctNode |-> 0, BasePath |-> ""]]   \* no unit yet
    /\ poolWg = numWorkers
    /\ files = {}
    /\ tilesets = {}
    /\ worklog = [n \in 1..tree.size |-> [pnts |-> "none", json |-> "none", ret |-> "none"]]
    /\ errored = FALSE
    /\ lateStart = {}
    /\ pipeline = "none"

\* The producer's walk pushes the next node's work unit, unless an error was
\* posted already.
Produce ==
    /\ ~closed
    /\ produced < tree.size
    /\ errchan = <<>>
    /\ Len(workchan) < WorkChanCap
    /\ workchan' = Append(workchan, WorkUnit(tree, produced + 1))
    /\ produced' = produced + 1
    /\ UNCHANGED <<tree, numWorkers, closed, errchan, cpc, cwork, poolWg, files, tilesets,
                   worklog, errored, lateStart, pipeline>>
    /\ UNCHANGED <<readerVars, pntsVars>>

\* The producer closes the work channel: after the last node, or on the
\* first error.
CloseWork ==
    /\ ~closed
    /\ produced = tree.size \/ errchan # <<>>
    /\ closed' = TRUE
    /\ UNCHANGED <<tree, numWorkers, produced, workchan, errchan, cpc, cwork, poolWg, files,
                   tilesets, worklog, errored, lateStart, pipeline>>
    /\ UNCHANGED <<readerVars, pntsVars>>

\* Consume: work, ok := <-workchan, then doWork(work) is entered.  A buffered
\* unit is delivered even after close; a closed and drained channel ends the
\* loop, then wg.Done().  The loop tests only the channel's ok flag, never
\* whether another goroutine has failed.
ConsumeReceive(w) ==
    /\ cpc[w] = "recv"
    /\ IF workchan # <<>>
       THEN /\ cwork' = [cwork EXCEPT ![w] = Head(workchan)]
            /\ workchan' = Tail(workchan)
            /\ cpc' = [cpc EXCEPT ![w] = "pnts"]
            /\ lateStart' = IF errored THEN lateStart \cup {Head(workchan).OctNode}
                            ELSE lateStart
            /\ UNCHANGED poolWg
       ELSE /\ closed
            /\ cpc' = [cpc EXCEPT ![w] = "done"]
            /\ poolWg' = poolWg - 1
            /\ UNCHANGED <<cwork, workchan, lateStart>>
    /\ UNCHANGED <<tree, numWorkers, produced, closed, errchan, files, tilesets, worklog,
                   errored, pipeline>>
    /\ UNCHANGED <<readerVars, pntsVars>>

\* doWork going on to writeJsonTileset whatever the node is.
AfterPnts_NoLeafCheck(ok, isLeaf) == IF ~ok THEN "senderr" ELSE "json"

\* Where doWork goes after writeBinaryPnts returned: the error out, a leaf done,
\* an inner node on to writeJsonTileset.
AfterPnts(ok, isLeaf) ==
    IF ~ok THEN "senderr"
    ELSE IF ~isLeaf THEN "json"
    ELSE "recv"

\* doWork, first half: writeBinaryPnts(*workUnit).
doWork(w) ==
    /\ cpc[w] = "pnts"
    /\ LET unit == cwork[w]
           n == unit.OctNode
       IN \E ok \in BOOLEAN :
            LET next == AfterPnts(ok, tree.IsLeaf[n])
            IN /\ files' = IF ok THEN files \cup {PathJoin(unit.BasePath, "content.pnts")}
                           ELSE files
               /\ cpc' = [cpc EXCEPT ![w] = next]
               /\ errored' = (errored \/ next = "senderr")
               /\ worklog' = [worklog EXCEPT ![n].pnts = IF ok THEN "ok" ELSE "fail",
                                             ![n].ret = CASE next = "senderr" -> "err"
                                                          [] next = "recv" -> "nil"
                                                          [] OTHER -> @]
    /\ UNCHANGED <<tree, numWorkers, produced, workchan, closed, errchan, cwork, poolWg,
                   tilesets, lateStart, pipeline>>
    /\ UNCHANGED <<readerVars, pntsVars>>

\* Every child referenced by its tileset.json, leaf or not.
createTilesetJson_OneName(t, n) ==
    { Itoa(i) \o "/" \o "tileset.json" :
        i \in { j \in 0..7 : /\ ChildAt(t, n, j) # 0
                             /\ t.GlobalChildrenCount[ChildAt(t, n, j)] > 0 } }

\* The child URLs createTilesetJson lists for non-leaf node n: one per slot
\* with a non-nil child whose GlobalChildrenCount is positive.
createTilesetJson(t, n) ==
    { Itoa(i) \o "/" \o (IF t.IsLeaf[ChildAt(t, n, i)] THEN "content.pnts" ELSE "tileset.json") :
        i \in { j \in 0..7 : /\ ChildAt(t, n, j) # 0
                             /\ t.GlobalChildrenCount[ChildAt(t, n, j)] > 0 } }

\* doWork, second half: writeJsonTileset(*workUnit).  It fails on an I/O or
\* conversion error, and always for a leaf (createTilesetJson refuses one).
writeJsonTileset(w) ==
    /\ cpc[w] = "json"
    /\ LET unit == cwork[w]
           n == unit.OctNode
       IN \E ok \in (IF tree.IsLeaf[n] THEN {FALSE} ELSE BOOLEAN) :
            /\ files' = IF ok THEN files \cup {PathJoin(unit.BasePath, "tileset.json")}
                        ELSE files
            /\ tilesets' = IF ok THEN tilesets \cup {[dir |-> unit.BasePath,
                                                      urls |-> createTilesetJson(tree, n)]}
                           ELSE tilesets
            /\ cpc' = [cpc EXCEPT ![w] = IF ok THEN "recv" ELSE "senderr"]
            /\ errored' = (errored \/ ~ok)
            /\ worklog' = [worklog EXCEPT ![n].json = IF ok THEN "ok" ELSE "fail",
                                          ![n].ret = IF ok THEN "nil" ELSE "err"]
    /\ UNCHANGED <<tree, numWorkers, produced, workchan, closed, errchan, cwork, poolWg,
                   lateStart, pipeline>>
    /\ UNCHANGED <<readerVars, pntsVars>>

\* Consume: errchan <- err (blocks while the channel is full), break, wg.Done().
ConsumeSendError(w) ==
    /\ cpc[w] = "senderr"
    /\ Len(errchan) < ErrChanCap
    /\ errchan' = Append(errchan, cwork[w].OctNode)
    /\ cpc' = [cpc EXCEPT ![w] = "done"]
    /\ poolWg' = poolWg - 1
    /\ UNCHANGED <<tree, numWorkers, produced, workchan, closed, cwork, files, tilesets,
                   worklog, errored, lateStart, pipeline>>
    /\ UNCHANGED <<readerVars, pntsVars>>

\* The caller joins the pool (wg.Wait()), then reads the error channel.
Join ==
    /\ pipeline = "none"
    /\ poolWg = 0
    /\ pipeline' = IF errchan # <<>> THEN "err" ELSE "nil"
    /\ UNCHANGED <<tree, numWorkers, produced, workchan, closed, errchan, cpc, cwork, poolWg,
                   files, tilesets, worklog, errored, lateStart>>
    /\ UNCHANGED <<readerVars, pntsVars>>

NextWriter ==
    \/ Produce
    \/ CloseWork
    \/ \E w \in 1..numWorkers : ConsumeReceive(w)
    \/ \E w \in 1..numWorkers : doWork(w)
    \/ \E w \in 1..numWorkers : writeJsonTileset(w)
    \/ \E w \in 1..numWorkers : ConsumeSendError(w)
    \/ Join

(***************************************************************************)
(*                      The content.pnts serializer                        *)
(***************************************************************************)
MaxPointNo == 12

RECURSIVE Repeat(_, _)
\* strings.Repeat
Repeat(c, n) == IF n <= 0 THEN "" ELSE c \o Repeat(c, n - 1)

\* fmt.Sprintf("%f", v) for the averages writeBinaryPnts computes: six
\* decimals for a finite value, "NaN" for the 0/0 of a node without items.
FiniteTexts == {"0.000000", "-6.500000", "12.250000", "4517590.878840"}

RECURSIVE generateFeatureTableJson(_, _, _, _, _)
\* The feature table JSON, padded with "0" after the x of RTC_CENTER.
generateFeatureTableJson(x, y, z, n, spaceNo) ==
    LET sb == "{\"POINTS_LENGTH\":" \o Itoa(n) \o ","
              \o "\"RTC_CENTER\":[" \o x \o Repeat("0", spaceNo)
              \o "," \o y \o "," \o z \o "],"
              \o "\"POSITION\":" \o "{\"byteOffset\":" \o "0" \o "},"
              \o "\"RGB\":" \o "{\"byteOffset\":" \o Itoa(n * 12) \o "}}"
        paddingSize == Len(sb) % 4
    IN  IF paddingSize # 0
        THEN generateFeatureTableJson(x, y, z, n, 4 - paddingSize)
        ELSE sb

RECURSIVE generateBatchTableJson(_, _)
\* The batch table JSON, padded with trailing spaces.
generateBatchTableJson(pointNumber, spaceNumber) ==
    LET sb == "{\"INTENSITY\":" \o "{\"byteOffset\":" \o "0"
              \o ", \"componentType\":\"UNSIGNED_BYTE\", \"type\":\"SCALAR\"},"
              \o "\"CLASSIFICATION\":" \o "{\"byteOffset\":" \o Itoa(pointNumber)
              \o ", \"componentType\":\"UNSIGNED_BYTE\", \"type\":\"SCALAR\"}}"
              \o Repeat(" ", spaceNumber)
        paddingSize == Len(sb) % 4
    IN  IF paddingSize # 0
        THEN generateBatchTableJson(pointNumber, 4 - paddingSize)
        ELSE sb

\* utils.ConvertIntToByteArray: the low 32 bits of v as four bytes, least
\* significant first (\div floors, so this is the two's complement of v).
ConvertIntToByteArray(v) ==
    <<v % 256, (v \div 256) % 256, (v \div 65536) % 256, (v \div 16777216) % 256>>

\* len(utils.ConvertTruncateFloat64ToFloat32ByteArray(coords)): four bytes
\* per coordinate.
Float32ByteArrayLen(coordsLen) == 4 * coordsLen

\* byteLength without the 28 header bytes.
byteLength_NoHeader(featureTableLen, positionBytesLen, colorsLen) ==
    featureTableLen + positionBytesLen + colorsLen

\* byteLength as writeBinaryPnts computes it.
byteLength(featureTableLen, positionBytesLen, colorsLen) ==
    28 + featureTableLen + positionBytesLen + colorsLen

\* What writeBinaryPnts appends to outputByte for a node of n items whose
\* averages print as x, y, z: the 28 header bytes, the two JSON tables, and
\* the lengths of the four binary arrays.
writeBinaryPnts(n, x, y, z) ==
    LET positionBytesLen == Float32ByteArrayLen(n * 3)
        colorsLen == n * 3
        intensitiesLen == n
        classificationsLen == n
        featureTableStr == generateFeatureTableJson(x, y, z, n, 0)
        featureTableLen == Len(featureTableStr)
        batchTableStr == generateBatchTableJson(n, 0)
        batchTableLen == Len(batchTableStr)
    IN  [ header |-> <<112, 110, 116, 115>>
                     \o ConvertIntToByteArray(1)
                     \o ConvertIntToByteArray(byteLength(featureTableLen, positionBytesLen,
                                                         colorsLen))
                     \o ConvertIntToByteArray(featureTableLen)
                     \o ConvertIntToByteArray(positionBytesLen + colorsLen)
                     \o ConvertIntToByteArray(batchTableLen)
                     \o ConvertIntToByteArray(intensitiesLen + classificationsLen),
          featureTable |-> featureTableStr,
          positions |-> positionBytesLen,
          colors |-> colorsLen,
          batchTable |-> batchTableStr,
          intensities |-> intensitiesLen,
          classifications |-> classificationsLen ]

NoOutput ==
    [ header |-> <<>>, featureTable |-> "", positions |-> 0, colors |-> 0,
      batchTable |-> "", intensities |-> 0, classifications |-> 0 ]

InitPntsVars ==
    /\ ppc = "input"
    /\ outputByte = NoOutput

\* One call of writeBinaryPnts: the file is written, or MkdirAll, the
\* coordinate conversion or WriteFile fails and nothing is written.
WritePnts ==
    /\ ppc = "input"
    /\ \/ /\ outputByte' = writeBinaryPnts(pointNo, center[1], center[2], center[3])
          /\ ppc' = "written"
       \/ /\ ppc' = "failed"
          /\ UNCHANGED outputByte
    /\ UNCHANGED <<pointNo, center>>
    /\ UNCHANGED <<readerVars, writerVars>>

NextPnts == WritePnts

(***************************************************************************)
(*                          The specifications                             *)
(***************************************************************************)

\* A tree and a pool that stay idle while another part runs.
IdleWriter ==
    /\ tree = OctNode(1, <<0>>, <<0>>, <<0>>)
    /\ numWorkers = 1
    /\ InitWriterVars

IdlePnts ==
    /\ pointNo = 0
    /\ center = <<"NaN", "NaN", "NaN">>
    /\ InitPntsVars

IdleReader ==
    /\ numCPUs = 1
    /\ InitReaderVars

InitReader ==
    /\ numCPUs \in 1..MaxCPU
    /\ InitReaderVars
    /\ IdleWriter
    /\ IdlePnts

SpecReader == InitReader /\ [][NextReader]_vars

InitWriter ==
    /\ tree \in Octrees
    /\ numWorkers \in 1..MaxWorkers
    /\ InitWriterVars
    /\ IdleReader
    /\ IdlePnts

SpecWriter == InitWriter /\ [][NextWriter]_vars

\* The Go scheduler runs every goroutine that stays runnable: the producer,
\* each Consume goroutine and the joining caller.  A goroutine blocked on a
\* channel or on the wait group is not runnable.
FairWriter ==
    /\ WF_vars(Produce)
    /\ WF_vars(CloseWork)
    /\ WF_vars(Join)
    /\ \A w \in 1..MaxWorkers :
          WF_vars(/\ w <= numWorkers
                  /\ \/ ConsumeReceive(w)
                     \/ doWork(w)
                     \/ writeJsonTileset(w)
                     \/ ConsumeSendError(w))

SpecWriterFair == InitWriter /\ [][NextWriter]_vars /\ FairWriter

InitPnts ==
    /\ pointNo \in 0..MaxPointNo
    /\ center \in IF pointNo = 0 THEN {<<"NaN", "NaN", "NaN">>}
                  ELSE FiniteTexts \X FiniteTexts \X FiniteTexts
    /\ InitPntsVars
    /\ IdleReader
    /\ IdleWriter

SpecPnts == InitPnts /\ [][NextPnts]_vars

(***************************************************************************)
(*                       Properties of the LAS reader                      *)
(***************************************************************************)

\* The header names a format of 0..3 and a record length of that format's row.
HeaderLegal(h) ==
    /\ h.PointFormatID \in 0..3
    /\ \E c \in 1..4 : recLengths[h.PointFormatID][c] = h.PointRecordLength

HeaderRead == rpc \notin {"open", "header"}

\* Some goroutine has decoded a record.
PointsParsed ==
    \E w \in 1..Len(workers) :
        workers[w].pc \in {"add", "inadd"} \/ workers[w].i > workers[w].pointSt

Range(w) == workers[w].pointSt..workers[w].pointEnd

BlockLen(w) == workers[w].pointEnd - workers[w].pointSt + 1

\* C1: once a header with a format id outside 0..3, or with a record length
\* outside its format's row, has been read, no point record is ever parsed
\* or handed to the loader, and the reader, when it returns, returns an error.
C1_IllegalHeaderIsFormatError ==
    (HeaderRead /\ ~HeaderLegal(Header)) =>
        /\ ~PointsParsed
        /\ \A i \in DOMAIN emitted : emitted[i] = 0
        /\ rpc = "done" => result = "err"

\* C2: when the bulk ReadAt has failed, no parse goroutine is started, no
\* point is emitted, and the reader, when it returns, returns an error.
C2_BulkReadErrorAborts ==
    readFailed =>
        /\ workers = <<>>
        /\ \A i \in DOMAIN emitted : emitted[i] = 0
        /\ rpc = "done" => result = "err"

\* C3: the index ranges handed to the parse goroutines are pairwise disjoint
\* and lie in 0..N-1; once the spawn loop has ended their union is 0..N-1; no
\* record is handed to the loader twice; when the reader has returned nil
\* every goroutine has finished and every record was handed over exactly once;
\* for N = 0 no goroutine is started and the reader is free to return nil.
C3_DisjointCoverBarrier ==
    /\ \A a, b \in 1..Len(workers) : a # b => Range(a) \cap Range(b) = {}
    /\ \A w \in 1..Len(workers) :
          Range(w) # {} /\ Range(w) \subseteq 0..(Header.NumberPoints - 1)
    /\ startingPoint >= Header.NumberPoints =>
          UNION { Range(w) : w \in 1..Len(workers) } = 0..(Header.NumberPoints - 1)
    /\ \A i \in DOMAIN emitted : emitted[i] <= 1
    /\ (rpc = "done" /\ result = "nil") =>
          /\ \A w \in 1..Len(workers) : workers[w].pc = "done"
          /\ \A i \in 0..(Header.NumberPoints - 1) : emitted[i] = 1
    /\ Header.NumberPoints = 0 => workers = <<>>
    /\ (rpc = "spawn" /\ Header.NumberPoints = 0) => ENABLED WaitAndReturn

\* C3's case: a read of at least three records by several goroutines that
\* has returned nil.
C3_Witness ==
    /\ rpc = "done"
    /\ result = "nil"
    /\ Header.NumberPoints >= 3
    /\ Len(workers) >= 2

\* C4 as stated: after the spawn loop of a read of N >= 1 records there are
\* exactly numCPU blocks, each but the last of floor(N/numCPU) records, the
\* last of floor(N/numCPU) + N mod numCPU records.
C4_NumCPUBlocksOfFloor ==
    (Header.NumberPoints >= 1 /\ startingPoint >= Header.NumberPoints) =>
        /\ Len(workers) = numCPUs
        /\ \A w \in 1..(Len(workers) - 1) : BlockLen(w) = Header.NumberPoints \div numCPUs
        /\ BlockLen(Len(workers)) =
              (Header.NumberPoints \div numCPUs) + (Header.NumberPoints % numCPUs)

\* C4 amended: after the spawn loop of a read of N >= 1 records there are
\* k = ceil(N / (floor(N/numCPU) + 1)) contiguous blocks, 1 <= k <= numCPU, one
\* per goroutine; each but the last holds floor(N/numCPU) + 1 records and the
\* last holds the remaining 1..floor(N/numCPU)+1 records.
C4_BlocksOfFloorPlusOne ==
    (Header.NumberPoints >= 1 /\ startingPoint >= Header.NumberPoints) =>
        LET N == Header.NumberPoints
            k == Len(workers)
            size == (N \div numCPUs) + 1
        IN  /\ 1 <= k /\ k <= numCPUs
            /\ (k - 1) * size < N /\ N <= k * size
            /\ workers[1].pointSt = 0
            /\ workers[k].pointEnd = N - 1
            /\ \A w \in 1..(k - 1) : workers[w + 1].pointSt = workers[w].pointEnd + 1
            /\ \A w \in 1..(k - 1) : BlockLen(w) = size
            /\ BlockLen(k) = N - (k - 1) * size
            /\ BlockLen(k) \in 1..size

\* C4's case: four records on two CPUs, split into blocks of 3 and 1.
C4_Witness ==
    /\ Header.NumberPoints = 4
    /\ numCPUs = 2
    /\ startingPoint >= Header.NumberPoints
    /\ Len(workers) = 2
    /\ BlockLen(1) = 3
    /\ BlockLen(2) = 1

\* C5: at no time are two parse goroutines inside loader.AddElement.
C5_AddElementSingleThreaded ==
    Cardinality({ w \in 1..Len(workers) : workers[w].pc = "inadd" }) <= 1

(***************************************************************************)
(*                       Properties of the tile writer                     *)
(***************************************************************************)

\* C6: no Consume goroutine begins a work unit after some doWork has
\* returned an error.
C6_NoUnitAfterError == lateStart = {}

\* C7: for every node, tileset.json is attempted only after content.pnts was
\* written and only for a non-leaf; once doWork has returned, tileset.json was
\* attempted iff the pnts write succeeded and the node is not a leaf; a failed
\* pnts write returns the error with no tileset.json attempt; no leaf's
\* directory holds a tileset.json, and a directory holding tileset.json holds
\* content.pnts.
C7_PntsThenTilesetForNonLeaf ==
    \A n \in 1..tree.size :
        LET l == worklog[n]
            dir == BasePath(tree, n)
        IN  /\ l.json # "none" => (l.pnts = "ok" /\ ~tree.IsLeaf[n])
            /\ l.ret # "none" => (l.json # "none" <=> (l.pnts = "ok" /\ ~tree.IsLeaf[n]))
            /\ l.pnts = "fail" => (l.json = "none" /\ l.ret = "err")
            /\ tree.IsLeaf[n] => PathJoin(dir, "tileset.json") \notin files
            /\ PathJoin(dir, "tileset.json") \in files => PathJoin(dir, "content.pnts") \in files
            /\ \A w \in 1..numWorkers :
                  (cpc[w] = "json" /\ cwork[w].OctNode = n) => (l.pnts = "ok" /\ ~tree.IsLeaf[n])

\* C7's case: a non-leaf whose two files were written, a leaf that was
\* processed, and a node whose pnts write failed.
C7_Witness ==
    /\ \E n \in 1..tree.size : ~tree.IsLeaf[n] /\ worklog[n].json = "ok"
    /\ \E n \in 1..tree.size : tree.IsLeaf[n] /\ worklog[n].ret = "nil"
    /\ \E n \in 1..tree.size : worklog[n].pnts = "fail"

\* C9: after the pipeline has finished without error, every child URL of
\* every emitted tileset.json, resolved against the tileset's directory, names
\* a file on disk.
C9_ChildUrlsResolve ==
    pipeline = "nil" =>
        \A ts \in tilesets : \A url \in ts.urls : PathJoin(ts.dir, url) \in files

\* C9's case: a finished pipeline whose tilesets reference a non-leaf child
\* and a leaf child.
C9_Witness ==
    /\ pipeline = "nil"
    /\ \E ts \in tilesets : "0/tileset.json" \in ts.urls
    /\ \E ts \in tilesets : "0/content.pnts" \in ts.urls

(***************************************************************************)
(*                  Properties of the content.pnts serializer              *)
(***************************************************************************)

\* The little-endian 32-bit value at byte offset off (from 0) of bytes.
ReadU32(bytes, off) ==
    bytes[off + 1] + 256 * bytes[off + 2] + 65536 * bytes[off + 3] + 16777216 * bytes[off + 4]

IsDigit(c) == c \in {"0", "1", "2", "3", "4", "5", "6", "7", "8", "9"}

DigitValue(c) == CHOOSE d \in 0..9 : Digit(d) = c

RECURSIVE ReadNumber(_, _, _)
\* The decimal number that starts at position i of text.
ReadNumber(text, i, acc) ==
    IF i <= Len(text) /\ IsDigit(SubSeq(text, i, i))
    THEN ReadNumber(text, i + 1, 10 * acc + DigitValue(SubSeq(text, i, i)))
    ELSE acc

\* The number that follows the first occurrence of key in text; -1 without one.
NumberAfter(text, key) ==
    LET hits == { i \in 1..(Len(text) - Len(key) + 1) : SubSeq(text, i, i + Len(key) - 1) = key }
    IN  IF hits = {} \/ ~IsDigit(SubSeq(text, (CHOOSE i \in hits : \A j \in hits : i <= j) + Len(key),
                                             (CHOOSE i \in hits : \A j \in hits : i <= j) + Len(key)))
        THEN -1
        ELSE ReadNumber(text, (CHOOSE i \in hits : \A j \in hits : i <= j) + Len(key), 0)

\* C8: each of the four length fields of a written header (offsets 12, 16,
\* 20, 24) is a multiple of 4.
C8_LengthFieldsMultipleOf4 ==
    ppc = "written" =>
        \A off \in {12, 16, 20, 24} : ReadU32(outputByte.header, off) % 4 = 0

\* C10: in a written tile of N items the field at offset 8 is
\* 28 + (the field at offset 12) + 12*N + 3*N, the field at offset 12 is the
\* length of the feature table JSON, the RGB byteOffset in that JSON is 12*N
\* and the CLASSIFICATION byteOffset in the batch table JSON is N.
C10_ByteLengthAndOffsets ==
    ppc = "written" =>
        /\ ReadU32(outputByte.header, 8)
              = 28 + ReadU32(outputByte.header, 12) + 12 * pointNo + 3 * pointNo
        /\ ReadU32(outputByte.header, 12) = Len(outputByte.featureTable)
        /\ NumberAfter(outputByte.featureTable, "\"RGB\":{\"byteOffset\":") = 12 * pointNo
        /\ NumberAfter(outputByte.batchTable, "\"CLASSIFICATION\":{\"byteOffset\":") = pointNo

\* C10's case: a written tile of eleven items whose feature table needed
\* padding.
C10_Witness ==
    /\ ppc = "written"
    /\ pointNo = 11
    /\ Len(outputByte.featureTable)
          # Len("{\"POINTS_LENGTH\":11,\"RTC_CENTER\":[" \o center[1] \o "," \o center[2] \o ","
                \o center[3] \o "],\"POSITION\":{\"byteOffset\":0},\"RGB\":{\"byteOffset\":132}}")

\* C11: converters.DeallocateProjection is called at most once in a read, and
\* exactly once in a read that has returned nil; when it has been called the
\* spawn loop has ended and every parse goroutine has finished (the wait
\* group is at zero); in no interleaving does a goroutine call
\* converters.Convert on a released projection.
C11_ReleaseOnceAfterWorkers ==
    /\ releases <= 1
    /\ (rpc = "done" /\ result = "nil") => releases = 1
    /\ projection = "released" <=> releases >= 1
    /\ releases >= 1 =>
          /\ startingPoint >= Header.NumberPoints
          /\ wg = 0
          /\ \A w \in 1..Len(workers) : workers[w].pc = "done"
    /\ ~lateConvert

\* C11's case: the projection was released in a read whose records were
\* converted by two goroutines.
C11_Witness ==
    /\ releases = 1
    /\ Len(workers) = 2
    /\ workers[1].i > workers[1].pointEnd /\ workers[2].i > workers[2].pointEnd
    /\ \A i \in 0..(Header.NumberPoints - 1) : emitted[i] = 1

\* C12: with an error channel of capacity 1 that is read only after the join,
\* once the work channel is closed every Consume goroutine eventually reaches
\* wg.Done(), whatever the number of goroutines and of failing work units, so
\* the wait group comes to zero and the join completes.
C12_JoinCompletes ==
    closed ~> (poolWg = 0 /\ \A w \in 1..numWorkers : cpc[w] = "done")

\* The reader is past the selection of the two flags.
FlagsSelected == rpc \in {"bulk", "spawn", "fatal"} \/ (rpc = "done" /\ result = "nil")

\* C13: for each format id in 0..3 and each record length of its row, exactly
\* one column of the row holds the length, the chain selects the same pair of
\* flags whatever the flags were before, and the parser's advance under those
\* flags is the record length; in a read of such a header the flags in force
\* are that pair, so record i is parsed from bytes
\* i*length .. (i+1)*length - 1, inside the buffer, and no goroutine panics.
C13_AdvanceEqualsRecordLength ==
    /\ \A f \in 0..3 : \A c \in 1..4 :
          LET h == [PointFormatID |-> f, PointRecordLength |-> recLengths[f][c],
                    NumberPoints |-> 1]
          IN /\ \A d \in 1..4 : recLengths[f][d] = recLengths[f][c] => d = c
             /\ \A a, b \in BOOLEAN :
                   /\ SelectFlags(h, a, b) = <<c \in {1, 3}, c \in {1, 2}>>
                   /\ RecordAdvance(f, SelectFlags(h, a, b)[1], SelectFlags(h, a, b)[2])
                         = recLengths[f][c]
    /\ (FlagsSelected /\ HeaderLegal(Header)) =>
          /\ <<usePointIntensity, usePointUserdata>> = SelectFlags(Header, FALSE, FALSE)
          /\ RecordAdvance(Header.PointFormatID, usePointIntensity, usePointUserdata)
                = Header.PointRecordLength
          /\ \A i \in 0..(Header.NumberPoints - 1) :
                ParseInRange(Header, usePointIntensity, usePointUserdata, i)
    /\ HeaderLegal(Header) => rpc # "panic"

\* C13's case: a read of three format 3 records of 33 bytes (intensity, no
\* user data) has parsed every record.
C13_Witness ==
    /\ rpc = "done"
    /\ result = "nil"
    /\ Header = [PointFormatID |-> 3, PointRecordLength |-> 33, NumberPoints |-> 3]
    /\ usePointIntensity /\ ~usePointUserdata
    /\ \A i \in 0..2 : emitted[i] = 1

=============================================================================
